---- MODULE Spec2Model ----
(***************************************************************************)
(* Maze generation (Prim / DFS), pattern protection, loop injection and    *)
(* breadth-first path solving of the A-Maze-Ing repository.                *)
(***************************************************************************)
EXTENDS Integers, Sequences, FiniteSets, TLC

VARIABLES
    algo,       \* which generator runs: "iprim", "idfs", "aprim", "adfs", "mprim", "mdfs", "amg"; "path", "embed"
    width,      \* self.width
    height,     \* self.height
    pattern,    \* self.pattern_cells, a set of <<x, y>>
    entry,      \* self.entry
    exit,       \* self.exit_coords
    perfect,    \* self.perfect
    walls,      \* cell.walls of every cell of self.grid
    visited,    \* cell.visited of every cell
    enabled,    \* cell.enabled of every cell
    frontier,   \* Prim: list of <<current_cell, neighbor_cell, direction>>
    stack,      \* DFS: list of cells
    start,      \* start_cell of generate(), <<>> before it is picked
    carved,     \* history: list of <<cell1, cell2, direction>> passed to remove_wall_between by generate()
    removed,    \* history: list of <<cell, neighbor, direction>> removed by loop injection
    route,      \* the direction list last returned by find_path
    seed,       \* the seed handed to the constructor
    rng,        \* state of the module-level generator of `random`
    run_no,     \* which of the consecutive generate() calls is running
    first_walls, \* the wall masks the first of the two calls returned
    frames,     \* self.frames of the recorder, a list of AnimationFrame
    rendered,   \* <<index, outcome>> of the last frame access by index, <<>> before
    output_file, \* the lines of the file written, <<>> before
    pc          \* "new", "gen", "generated", "done", "raised"; "stored", "written"; "matrix", "solved" ...

vars == <<algo, width, height, pattern, entry, exit, perfect, walls, visited,
          enabled, frontier, stack, start, carved, removed, route, seed, rng,
          run_no, first_walls, frames, rendered, output_file, pc>>

detvars == <<seed, rng, run_no, first_walls>>

recvars == <<frames, rendered, output_file>>

----------------------------------------------------------------------------
(* Bounds of the model *)

MaxCells == 6
MaxPattern == 2
MaxPathCells == 6
MaxClears == 1
MaxSeed == 3
MaxMargin == 1
MaxCalls == 2
MaxOvershoot == 1
MaxSide == 4

----------------------------------------------------------------------------
(* Cell model: walls bit mask N=1, E=2, S=4, W=8 *)

AllWalls == 15

\* defect: South is enumerated before East
Dirs_SouthFirst == <<"N", "S", "E", "W">>

\* the order in which the four directions are tried
Dirs == <<"N", "E", "S", "W">>

DirSet == {"N", "E", "S", "W"}

wall_bits(d) == CASE d = "N" -> 1 [] d = "E" -> 2 [] d = "S" -> 4 [] d = "W" -> 8

opposite(d) == CASE d = "N" -> "S" [] d = "S" -> "N" [] d = "E" -> "W" [] d = "W" -> "E"

directions(d) == CASE d = "N" -> <<0, -1>> [] d = "E" -> <<1, 0>>
                   [] d = "S" -> <<0, 1>> [] d = "W" -> <<-1, 0>>

has_wall(w, d) == (w \div wall_bits(d)) % 2 = 1

\* defect: the bit of the opposite side is cleared
remove_wall_Opposite(w, d) ==
    IF has_wall(w, opposite(d)) THEN w - wall_bits(opposite(d)) ELSE w

remove_wall(w, d) == IF has_wall(w, d) THEN w - wall_bits(d) ELSE w

Cells(w, h) == (0 .. w - 1) \X (0 .. h - 1)

Step(c, d) == <<c[1] + directions(d)[1], c[2] + directions(d)[2]>>

InBounds(c, w, h) == c[1] >= 0 /\ c[1] < w /\ c[2] >= 0 /\ c[2] < h

\* defect: the West branch is missing
get_neighbors_NoWest(c, w, h) ==
    LET all == [i \in 1 .. 3 |-> <<Step(c, Dirs[i]), Dirs[i]>>]
        ok(e) == CASE e[2] = "N" -> c[2] > 0
                   [] e[2] = "E" -> c[1] < w - 1
                   [] e[2] = "S" -> c[2] < h - 1
    IN SelectSeq(all, ok)

get_neighbors(c, w, h) ==
    LET all == [i \in 1 .. 4 |-> <<Step(c, Dirs[i]), Dirs[i]>>]
        ok(e) == CASE e[2] = "N" -> c[2] > 0
                   [] e[2] = "E" -> c[1] < w - 1
                   [] e[2] = "S" -> c[2] < h - 1
                   [] e[2] = "W" -> c[1] > 0
    IN SelectSeq(all, ok)

get_unvisited_neighbors(c, w, h, vis) ==
    LET unv(e) == ~vis[e[1]]
    IN SelectSeq(get_neighbors(c, w, h), unv)

\* defect: only the first cell's wall is cleared
remove_wall_between_OneSided(ws, c1, c2, d) ==
    [ws EXCEPT ![c1] = remove_wall(ws[c1], d)]

remove_wall_between(ws, c1, c2, d) ==
    [ws EXCEPT ![c1] = remove_wall(ws[c1], d),
               ![c2] = remove_wall(ws[c2], opposite(d))]

RemoveAt(s, i) == SubSeq(s, 1, i - 1) \o SubSeq(s, i + 1, Len(s))

Abs(n) == IF n < 0 THEN -n ELSE n

Min(a, b) == IF a < b THEN a ELSE b

Max(a, b) == IF a > b THEN a ELSE b

----------------------------------------------------------------------------
(* Pattern mask: utils/pattern_embedder.py *)

PATTERN_42 == << <<1, 0, 0, 0, 1, 1, 1>>,
                 <<1, 0, 0, 0, 0, 0, 1>>,
                 <<1, 1, 1, 0, 1, 1, 1>>,
                 <<0, 0, 1, 0, 1, 0, 0>>,
                 <<0, 0, 1, 0, 1, 1, 1>> >>

\* defect: the pattern is placed even where it does not fit
pattern_fits_Always(w, h, pattern_width, pattern_height) == TRUE

\* the negation of `pattern_width > width or pattern_height > height`
pattern_fits(w, h, pattern_width, pattern_height) ==
    ~(pattern_width > w \/ pattern_height > h)

\* defect: the entry and the exit are not taken out of the mask
get_pattern_cells_KeepProtected(w, h, pat, en, ex) ==
    LET pattern_height == Len(pat)
        pattern_width == IF Len(pat) > 0 THEN Len(pat[1]) ELSE 0
        offset_x == (w \div 2) - (pattern_width \div 2)
        offset_y == (h \div 2) - (pattern_height \div 2)
    IN IF pattern_width = 0 \/ pattern_height = 0 THEN {}
       ELSE IF ~pattern_fits(w, h, pattern_width, pattern_height) THEN {}
       ELSE { c \in Cells(w, h) :
                /\ c[1] - offset_x \in 0 .. pattern_width - 1
                /\ c[2] - offset_y \in 0 .. pattern_height - 1
                /\ pat[c[2] - offset_y + 1][c[1] - offset_x + 1] = 1 }

get_pattern_cells(w, h, pat, en, ex) ==
    LET pattern_height == Len(pat)
        pattern_width == IF Len(pat) > 0 THEN Len(pat[1]) ELSE 0
        offset_x == (w \div 2) - (pattern_width \div 2)
        offset_y == (h \div 2) - (pattern_height \div 2)
    IN IF pattern_width = 0 \/ pattern_height = 0 THEN {}
       ELSE IF ~pattern_fits(w, h, pattern_width, pattern_height) THEN {}
       ELSE { c \in Cells(w, h) :
                /\ c[1] - offset_x \in 0 .. pattern_width - 1
                /\ c[2] - offset_y \in 0 .. pattern_height - 1
                /\ pat[c[2] - offset_y + 1][c[1] - offset_x + 1] = 1
                /\ c \notin {en, ex} }

----------------------------------------------------------------------------
(* Path solver: internal/path_finder.py.  The queue holds <<x, y, path>>   *)
(* as <<cell, path>>; a route is a sequence of direction characters.       *)

RECURSIVE Expand(_, _, _, _, _, _, _)
Expand(grid, w, h, item, k, queue, seen) ==
    IF k > 4 THEN <<queue, seen>>
    ELSE LET d == Dirs[k]
             n == Step(item[1], d)
         IN IF ~has_wall(grid[item[1]], d) /\ InBounds(n, w, h) /\ n \notin seen
            THEN Expand(grid, w, h, item, k + 1,
                        Append(queue, <<n, Append(item[2], d)>>), seen \cup {n})
            ELSE Expand(grid, w, h, item, k + 1, queue, seen)

\* defect: the queue is served newest first
popleft_Lifo(queue) == <<queue[Len(queue)], SubSeq(queue, 1, Len(queue) - 1)>>

\* queue.popleft(): the oldest item and the rest of the queue
popleft(queue) == <<Head(queue), Tail(queue)>>

RECURSIVE Search(_, _, _, _, _, _)
Search(grid, w, h, ex, queue, seen) ==
    IF queue = <<>> THEN <<>>
    ELSE LET item == popleft(queue)[1]
         IN IF item[1] = ex THEN item[2]
            ELSE LET r == Expand(grid, w, h, item, 1, popleft(queue)[2], seen)
                 IN Search(grid, w, h, ex, r[1], r[2])

find_path(grid, w, h, en, ex) == Search(grid, w, h, ex, << <<en, <<>>>> >>, {en})

\* path_coords of _make_imperfect: the cells a route visits, starting at en
RECURSIVE path_coords(_, _)
path_coords(en, r) ==
    IF r = <<>> THEN <<en>>
    ELSE <<en>> \o path_coords(Step(en, Head(r)), Tail(r))

Index(s, e) == CHOOSE i \in 1 .. Len(s) : s[i] = e /\ \A j \in 1 .. i - 1 : s[j] # e

Range(s) == { s[i] : i \in 1 .. Len(s) }

----------------------------------------------------------------------------
(* File export.  A file is the list of its lines, a line the list of its   *)
(* characters; every write ends its line with '\n'.                        *)

HexDigits == <<"0", "1", "2", "3", "4", "5", "6", "7", "8", "9",
               "A", "B", "C", "D", "E", "F">>

DecDigits == <<"0", "1", "2", "3", "4", "5", "6", "7", "8", "9">>

\* format(n, 'X')
RECURSIVE format_X(_)
format_X(n) ==
    IF n < 16 THEN <<HexDigits[n + 1]>>
    ELSE format_X(n \div 16) \o <<HexDigits[(n % 16) + 1]>>

\* the decimal form an f-string gives a non-negative int
RECURSIVE str_int(_)
str_int(n) ==
    IF n < 10 THEN <<DecDigits[n + 1]>>
    ELSE str_int(n \div 10) \o <<DecDigits[(n % 10) + 1]>>

\* ''.join(format(cell.walls, 'X') for cell in row), row y, cells x .. w - 1
RECURSIVE row_hex(_, _, _, _)
row_hex(ws, w, y, x) ==
    IF x >= w THEN <<>>
    ELSE format_X(ws[<<x, y>>]) \o row_hex(ws, w, y, x + 1)

maze_lines(ws, w, h) == [i \in 1 .. h |-> row_hex(ws, w, i - 1, 0)]

\* f"{entry[0]},{entry[1]}"
coord_line(c) == str_int(c[1]) \o <<",">> \o str_int(c[2])

\* generator.py: MazeGenerator.write_to_file
write_to_file(ws, w, h, en, ex, path) ==
    maze_lines(ws, w, h) \o << <<>>, coord_line(en), coord_line(ex), path >>

\* utils/file_writer.py: save_to_file; the route line is written `if path`
save_to_file(ws, w, h, en, ex, path) ==
    maze_lines(ws, w, h) \o << <<>>, coord_line(en), coord_line(ex) >>
        \o (IF path # <<>> THEN <<path>> ELSE <<>>)

\* maze_with_animation.py: MazeGeneratorWithAnimation.write_to_hex_file,
\* which solves the maze itself
write_to_hex_file(ws, w, h, en, ex) ==
    LET path_out == find_path(ws, w, h, en, ex)
    IN maze_lines(ws, w, h) \o << <<>>, coord_line(en), coord_line(ex), path_out >>

----------------------------------------------------------------------------
(* Construction: MazeGeneratorBase.__init__ and its wrappers *)

PatternGrids == { <<Len(PATTERN_42[1]), Len(PATTERN_42)>> }

\* the grid sizes of the small runs: every width x height of at most MaxCells cells
Sizes == { g \in (1 .. MaxCells) \X (1 .. MaxCells) : g[1] * g[2] <= MaxCells }

Corners(w, h) == { <<0, 0>>, <<w - 1, h - 1>> }

SmallPatterns(w, h) == { p \in SUBSET Cells(w, h) : Cardinality(p) <= MaxPattern }

\* defect: pattern cells are not marked visited
Construct_PatternUnvisited(a, w, h, p, en, ex, pf) ==
    /\ algo = a
    /\ width = w
    /\ height = h
    /\ pattern = p
    /\ entry = en
    /\ exit = ex
    /\ perfect = pf
    /\ walls = [c \in Cells(w, h) |-> AllWalls]
    /\ visited = [c \in Cells(w, h) |-> FALSE]
    /\ enabled = [c \in Cells(w, h) |-> c \notin p]
    /\ frontier = <<>>
    /\ stack = <<>>
    /\ start = <<>>
    /\ carved = <<>>
    /\ removed = <<>>
    /\ route = <<>>
    /\ pc = "new"

Construct(a, w, h, p, en, ex, pf) ==
    /\ algo = a
    /\ width = w
    /\ height = h
    /\ pattern = p
    /\ entry = en
    /\ exit = ex
    /\ perfect = pf
    /\ walls = [c \in Cells(w, h) |-> AllWalls]
    /\ visited = [c \in Cells(w, h) |-> c \in p]
    /\ enabled = [c \in Cells(w, h) |-> c \notin p]
    /\ frontier = <<>>
    /\ stack = <<>>
    /\ start = <<>>
    /\ carved = <<>>
    /\ removed = <<>>
    /\ route = <<>>
    /\ pc = "new"

\* runs whose random draws are left open: any outcome of each draw is possible
AnyDraws ==
    /\ seed = 0
    /\ rng = 0
    /\ run_no = 1
    /\ first_walls = <<>>

\* no frame captured, no frame accessed, no file written yet
NoRecorder ==
    /\ frames = <<>>
    /\ rendered = <<>>
    /\ output_file = <<>>

\* internal generators: any caller-supplied pattern_cells; entry and exit default
InitInternal ==
    \E a \in {"iprim", "idfs"}, g \in Sizes, pf \in BOOLEAN :
        \E p \in SmallPatterns(g[1], g[2]) :
            Construct(a, g[1], g[2], p, <<0, 0>>, <<g[1] - 1, g[2] - 1>>, pf)

\* rendering generator: the pattern mask never holds the entry or the exit
InitRendering ==
    \E a \in {"aprim", "adfs"}, g \in Sizes, pf \in BOOLEAN :
        \E p \in SmallPatterns(g[1], g[2]) :
            \E en \in Cells(g[1], g[2]) \ p :
                /\ <<g[1] - 1, g[2] - 1>> \notin p
                /\ Construct(a, g[1], g[2], p, en, <<g[1] - 1, g[2] - 1>>, pf)

\* grids on which PATTERN_42 fits, masked by get_pattern_cells
InitPattern42 ==
    \E a \in {"idfs", "adfs"}, g \in PatternGrids, pf \in BOOLEAN :
        \E en \in Corners(g[1], g[2]), ex \in Corners(g[1], g[2]) :
            /\ en # ex
            /\ Construct(a, g[1], g[2],
                         get_pattern_cells(g[1], g[2], PATTERN_42, en, ex),
                         en, ex, pf)

\* the pipeline's animators on an AnimatableMazeGenerator: any pattern_cells
InitPipeline ==
    \E a \in {"mprim", "mdfs"}, g \in Sizes :
        \E p \in SmallPatterns(g[1], g[2]) :
            Construct(a, g[1], g[2], p, <<0, 0>>, <<g[1] - 1, g[2] - 1>>, TRUE)

\* the pipeline on a grid on which PATTERN_42 fits, ENTRY at a corner or at
\* the middle of the top row, EXIT at a corner
InitPipeline42 ==
    \E g \in PatternGrids :
        \E en \in Corners(g[1], g[2]) \cup {<<g[1] \div 2, 0>>}, ex \in Corners(g[1], g[2]) :
            /\ en # ex
            /\ Construct("mdfs", g[1], g[2],
                         get_pattern_cells(g[1], g[2], PATTERN_42, en, ex),
                         en, ex, TRUE)

Init ==
    /\ \/ InitInternal
       \/ InitRendering
       \/ InitPattern42
       \/ InitPipeline
       \/ InitPipeline42
    /\ AnyDraws
    /\ NoRecorder

----------------------------------------------------------------------------
(* internal/maze_generator_prim.py: PrimMazeGenerator.generate *)

Edges(c, nbrs) == [j \in 1 .. Len(nbrs) |-> <<c, nbrs[j][1], nbrs[j][2]>>]

LoopExit(work) == IF work = <<>> THEN "generated" ELSE "gen"

\* [(x, y) for y in range(height) for x in range(width)]
RowMajor(w, h) == [i \in 1 .. w * h |-> <<(i - 1) % w, (i - 1) \div w>>]

non_pattern_cells(w, h, p) ==
    LET free(c) == c \notin p
    IN SelectSeq(RowMajor(w, h), free)

\* generate() up to the while loop; k is the index random.choice draws
PrimStartAt(k) ==
    /\ pc = "new"
    /\ algo = "iprim"
    /\ LET cells == non_pattern_cells(width, height, pattern)
       IN IF cells = <<>>
          THEN /\ pc' = "generated"
               /\ UNCHANGED <<visited, frontier, start>>
          ELSE LET start_cell == cells[k]
               IN /\ start' = start_cell
                  /\ visited' = [visited EXCEPT ![start_cell] = TRUE]
                  /\ frontier' = Edges(start_cell,
                         get_unvisited_neighbors(start_cell, width, height, visited'))
                  /\ pc' = LoopExit(frontier')
    /\ UNCHANGED <<algo, width, height, pattern, entry, exit, perfect, walls,
                   enabled, stack, carved, removed, route>>

\* defect: the popped wall is carved although the neighbour was visited
PrimStepAt_CarveVisited(wall_index) ==
    /\ pc = "gen"
    /\ algo = "iprim"
    /\ LET e == frontier[wall_index]
           rest == RemoveAt(frontier, wall_index)
       IN /\ walls' = remove_wall_between(walls, e[1], e[2], e[3])
          /\ visited' = [visited EXCEPT ![e[2]] = TRUE]
          /\ frontier' = IF ~visited[e[2]]
                         THEN rest \o Edges(e[2],
                                  get_unvisited_neighbors(e[2], width, height, visited'))
                         ELSE rest
          /\ carved' = Append(carved, e)
    /\ pc' = LoopExit(frontier')
    /\ UNCHANGED <<algo, start, width, height, pattern, entry, exit, perfect,
                   enabled, stack, removed, route>>

\* one pass of the while loop; wall_index is the index random.randint draws
PrimStepAt(wall_index) ==
    /\ pc = "gen"
    /\ algo = "iprim"
    /\ LET e == frontier[wall_index]
           rest == RemoveAt(frontier, wall_index)
       IN IF ~visited[e[2]]
          THEN /\ walls' = remove_wall_between(walls, e[1], e[2], e[3])
               /\ visited' = [visited EXCEPT ![e[2]] = TRUE]
               /\ frontier' = rest \o Edges(e[2],
                      get_unvisited_neighbors(e[2], width, height, visited'))
               /\ carved' = Append(carved, e)
          ELSE /\ frontier' = rest
               /\ UNCHANGED <<walls, visited, carved>>
    /\ pc' = LoopExit(frontier')
    /\ UNCHANGED <<algo, start, width, height, pattern, entry, exit, perfect,
                   enabled, stack, removed, route>>

PrimStart ==
    /\ \E k \in 1 .. Max(1, Len(non_pattern_cells(width, height, pattern))) :
         PrimStartAt(k)
    /\ UNCHANGED detvars
    /\ UNCHANGED recvars

PrimStep ==
    /\ \E wall_index \in 1 .. Len(frontier) : PrimStepAt(wall_index)
    /\ UNCHANGED detvars
    /\ UNCHANGED recvars

----------------------------------------------------------------------------
(* internal/maze_generator_dfs.py: DFSMazeGenerator.generate(0, 0) *)

\* the first non-pattern cell in row-major order
FirstNonPattern(w, h, p) == non_pattern_cells(w, h, p)[1]

\* generate() up to the while loop
DfsBegin ==
    /\ pc = "new"
    /\ algo = "idfs"
    /\ LET reset == [c \in Cells(width, height) |->
                        IF c \notin pattern THEN FALSE ELSE visited[c]]
           start_cell == IF <<0, 0>> \in pattern /\ Cells(width, height) \ pattern # {}
                         THEN FirstNonPattern(width, height, pattern)
                         ELSE <<0, 0>>
       IN /\ start' = start_cell
          /\ stack' = <<start_cell>>
          /\ visited' = [reset EXCEPT ![start_cell] = TRUE]
    /\ pc' = "gen"
    /\ UNCHANGED <<algo, width, height, pattern, entry, exit, perfect, walls,
                   enabled, frontier, carved, removed, route>>

\* defect: a dead end is not popped off the stack
DfsStepAt_NoPop(k) ==
    /\ pc = "gen"
    /\ algo = "idfs"
    /\ LET current == stack[Len(stack)]
           neighbors == get_unvisited_neighbors(current, width, height, visited)
       IN IF neighbors = <<>>
          THEN /\ stack' = stack
               /\ UNCHANGED <<walls, visited, carved>>
          ELSE /\ walls' = remove_wall_between(walls, current,
                                               neighbors[k][1], neighbors[k][2])
               /\ visited' = [visited EXCEPT ![neighbors[k][1]] = TRUE]
               /\ stack' = Append(stack, neighbors[k][1])
               /\ carved' = Append(carved,
                                   <<current, neighbors[k][1], neighbors[k][2]>>)
    /\ pc' = LoopExit(stack')
    /\ UNCHANGED <<algo, start, width, height, pattern, entry, exit, perfect,
                   enabled, frontier, removed, route>>

\* one pass of the while loop; k is the index random.choice draws
DfsStepAt(k) ==
    /\ pc = "gen"
    /\ algo = "idfs"
    /\ LET current == stack[Len(stack)]
           neighbors == get_unvisited_neighbors(current, width, height, visited)
       IN IF neighbors = <<>>
          THEN /\ stack' = SubSeq(stack, 1, Len(stack) - 1)
               /\ UNCHANGED <<walls, visited, carved>>
          ELSE /\ walls' = remove_wall_between(walls, current,
                                               neighbors[k][1], neighbors[k][2])
               /\ visited' = [visited EXCEPT ![neighbors[k][1]] = TRUE]
               /\ stack' = Append(stack, neighbors[k][1])
               /\ carved' = Append(carved,
                                   <<current, neighbors[k][1], neighbors[k][2]>>)
    /\ pc' = LoopExit(stack')
    /\ UNCHANGED <<algo, start, width, height, pattern, entry, exit, perfect,
                   enabled, frontier, removed, route>>

DfsStart ==
    /\ DfsBegin
    /\ UNCHANGED detvars
    /\ UNCHANGED recvars

DfsStep ==
    /\ pc = "gen"
    /\ algo = "idfs"
    /\ \E k \in 1 .. Max(1, Len(get_unvisited_neighbors(stack[Len(stack)], width,
                                                       height, visited))) :
         DfsStepAt(k)
    /\ UNCHANGED detvars
    /\ UNCHANGED recvars

----------------------------------------------------------------------------
(* algorithms/prim.py: MazeGenerator.generate(start_x, start_y), called by *)
(* AnimatedMazeGeneratorWithPattern.generate with the entry as start       *)

APrimStart ==
    /\ pc = "new"
    /\ algo = "aprim"
    /\ start' = entry
    /\ visited' = [visited EXCEPT ![entry] = TRUE]
    /\ frontier' = Edges(entry, get_neighbors(entry, width, height))
    /\ pc' = LoopExit(frontier')
    /\ UNCHANGED detvars
    /\ UNCHANGED recvars
    /\ UNCHANGED <<algo, width, height, pattern, entry, exit, perfect, walls,
                   enabled, stack, carved, removed, route>>

\* defect: the popped wall is carved whether or not the neighbour was visited
APrimStepAt_CarveAlways(wall_index) ==
    /\ pc = "gen"
    /\ algo = "aprim"
    /\ LET e == frontier[wall_index]
           rest == RemoveAt(frontier, wall_index)
       IN /\ walls' = remove_wall_between(walls, e[1], e[2], e[3])
          /\ visited' = [visited EXCEPT ![e[2]] = TRUE]
          /\ carved' = Append(carved, e)
          /\ frontier' = rest \o Edges(e[2],
                 get_unvisited_neighbors(e[2], width, height, visited'))
    /\ pc' = LoopExit(frontier')
    /\ UNCHANGED <<algo, start, width, height, pattern, entry, exit, perfect,
                   enabled, stack, removed, route>>

\* one pass of the while loop; wall_index is the index random.randint draws
APrimStepAt(wall_index) ==
    /\ pc = "gen"
    /\ algo = "aprim"
    /\ LET e == frontier[wall_index]
           rest == RemoveAt(frontier, wall_index)
       IN /\ IF ~visited[e[2]]
             THEN /\ walls' = remove_wall_between(walls, e[1], e[2], e[3])
                  /\ visited' = [visited EXCEPT ![e[2]] = TRUE]
                  /\ carved' = Append(carved, e)
             ELSE UNCHANGED <<walls, visited, carved>>
          /\ frontier' = rest \o Edges(e[2],
                 get_unvisited_neighbors(e[2], width, height, visited'))
    /\ pc' = LoopExit(frontier')
    /\ UNCHANGED <<algo, start, width, height, pattern, entry, exit, perfect,
                   enabled, stack, removed, route>>

APrimStep ==
    /\ \E wall_index \in 1 .. Len(frontier) : APrimStepAt(wall_index)
    /\ UNCHANGED detvars
    /\ UNCHANGED recvars

----------------------------------------------------------------------------
(* algorithms/dfs.py: MazeGenerator.generate(start_x, start_y) *)

_get_unvisited_neighbors(c, w, h, vis, en) ==
    LET all == [i \in 1 .. 4 |-> <<Step(c, Dirs[i]), Dirs[i]>>]
        ok(e) == InBounds(e[1], w, h) /\ en[e[1]] /\ ~vis[e[1]]
    IN SelectSeq(all, ok)

ADfsStart ==
    /\ pc = "new"
    /\ algo = "adfs"
    /\ LET reset == [c \in Cells(width, height) |->
                        IF walls[c] # AllWalls THEN FALSE ELSE visited[c]]
       IN visited' = [reset EXCEPT ![entry] = TRUE]
    /\ start' = entry
    /\ stack' = <<entry>>
    /\ pc' = "gen"
    /\ UNCHANGED detvars
    /\ UNCHANGED recvars
    /\ UNCHANGED <<algo, width, height, pattern, entry, exit, perfect, walls,
                   enabled, frontier, carved, removed, route>>

\* one pass of the while loop; k is the index random.choice draws
ADfsStepAt(k) ==
    /\ pc = "gen"
    /\ algo = "adfs"
    /\ LET start_cell == stack[Len(stack)]
           neighbors == _get_unvisited_neighbors(start_cell, width, height,
                                                 visited, enabled)
       IN IF Len(neighbors) = 0
          THEN /\ stack' = SubSeq(stack, 1, Len(stack) - 1)
               /\ UNCHANGED <<walls, visited, carved>>
          ELSE /\ walls' = remove_wall_between(walls, start_cell,
                                               neighbors[k][1], neighbors[k][2])
               /\ visited' = [visited EXCEPT ![neighbors[k][1]] = TRUE]
               /\ stack' = Append(stack, neighbors[k][1])
               /\ carved' = Append(carved,
                                   <<start_cell, neighbors[k][1], neighbors[k][2]>>)
    /\ pc' = LoopExit(stack')
    /\ UNCHANGED <<algo, start, width, height, pattern, entry, exit, perfect,
                   enabled, frontier, removed, route>>

ADfsStep ==
    /\ pc = "gen"
    /\ algo = "adfs"
    /\ \E k \in 1 .. Max(1, Len(_get_unvisited_neighbors(stack[Len(stack)], width,
                                                        height, visited, enabled))) :
         ADfsStepAt(k)
    /\ UNCHANGED detvars
    /\ UNCHANGED recvars

----------------------------------------------------------------------------
(* maze_animator_prim.py: PrimMazeAnimator.animate_generation, and         *)
(* maze_animator.py: MazeAnimator.animate_generation(0, 0), both driving   *)
(* an AnimatableMazeGenerator as MazeGenerator.generate_maze does          *)

Pipeline == algo \in {"mprim", "mdfs"}

MPrimStart ==
    /\ pc = "new"
    /\ algo = "mprim"
    /\ LET reset == [c \in Cells(width, height) |->
                        IF enabled[c] THEN FALSE ELSE visited[c]]
           free(c) == enabled[c]
           cells == SelectSeq(RowMajor(width, height), free)
       IN IF cells = <<>>
          THEN /\ visited' = reset
               /\ pc' = "generated"
               /\ UNCHANGED <<frontier, start>>
          ELSE LET start_cell == cells[1]
               IN /\ start' = start_cell
                  /\ visited' = [reset EXCEPT ![start_cell] = TRUE]
                  /\ frontier' = Edges(start_cell,
                         _get_unvisited_neighbors(start_cell, width, height,
                                                  visited', enabled))
                  /\ pc' = LoopExit(frontier')
    /\ UNCHANGED detvars
    /\ UNCHANGED recvars
    /\ UNCHANGED <<algo, width, height, pattern, entry, exit, perfect, walls,
                   enabled, stack, carved, removed, route>>

MPrimStep ==
    /\ pc = "gen"
    /\ algo = "mprim"
    /\ \E wall_index \in 1 .. Len(frontier) :
         LET e == frontier[wall_index]
             rest == RemoveAt(frontier, wall_index)
         IN IF ~visited[e[2]]
            THEN /\ walls' = remove_wall_between(walls, e[1], e[2], e[3])
                 /\ visited' = [visited EXCEPT ![e[2]] = TRUE]
                 /\ frontier' = rest \o Edges(e[2],
                        _get_unvisited_neighbors(e[2], width, height,
                                                 visited', enabled))
                 /\ carved' = Append(carved, e)
            ELSE /\ frontier' = rest
                 /\ UNCHANGED <<walls, visited, carved>>
    /\ pc' = LoopExit(frontier')
    /\ UNCHANGED detvars
    /\ UNCHANGED recvars
    /\ UNCHANGED <<algo, start, width, height, pattern, entry, exit, perfect,
                   enabled, stack, removed, route>>

MDfsStart ==
    /\ pc = "new"
    /\ algo = "mdfs"
    /\ LET reset == [c \in Cells(width, height) |->
                        IF walls[c] # AllWalls THEN FALSE ELSE visited[c]]
           start_cell == <<0, 0>>
       IN /\ start' = start_cell
          /\ stack' = <<start_cell>>
          /\ visited' = [reset EXCEPT ![start_cell] = TRUE]
    /\ pc' = "gen"
    /\ UNCHANGED detvars
    /\ UNCHANGED recvars
    /\ UNCHANGED <<algo, width, height, pattern, entry, exit, perfect, walls,
                   enabled, frontier, carved, removed, route>>

MDfsStep ==
    /\ pc = "gen"
    /\ algo = "mdfs"
    /\ LET current == stack[Len(stack)]
           neighbors == get_unvisited_neighbors(current, width, height, visited)
       IN IF Len(neighbors) = 0
          THEN /\ stack' = SubSeq(stack, 1, Len(stack) - 1)
               /\ UNCHANGED <<walls, visited, carved>>
          ELSE \E k \in 1 .. Len(neighbors) :
                 /\ walls' = remove_wall_between(walls, current,
                                                 neighbors[k][1], neighbors[k][2])
                 /\ visited' = [visited EXCEPT ![neighbors[k][1]] = TRUE]
                 /\ stack' = Append(stack, neighbors[k][1])
                 /\ carved' = Append(carved,
                                     <<current, neighbors[k][1], neighbors[k][2]>>)
    /\ pc' = LoopExit(stack')
    /\ UNCHANGED detvars
    /\ UNCHANGED recvars
    /\ UNCHANGED <<algo, start, width, height, pattern, entry, exit, perfect,
                   enabled, frontier, removed, route>>

\* generate_maze after animate_generation returned: self.last_path = find_path(...)
StorePath ==
    /\ pc = "generated"
    /\ Pipeline
    /\ route' = find_path(walls, width, height, entry, exit)
    /\ pc' = "stored"
    /\ UNCHANGED detvars
    /\ UNCHANGED recvars
    /\ UNCHANGED <<algo, start, width, height, pattern, entry, exit, perfect, walls,
                   visited, enabled, frontier, stack, carved, removed>>

\* run after generate_maze returned: path_str = find_path(...); write_to_file(...)
WriteOutput ==
    /\ pc = "stored"
    /\ Pipeline
    /\ LET path_str == find_path(walls, width, height, entry, exit)
       IN output_file' = write_to_file(walls, width, height, entry, exit, path_str)
    /\ pc' = "written"
    /\ UNCHANGED detvars
    /\ UNCHANGED <<frames, rendered>>
    /\ UNCHANGED <<algo, start, width, height, pattern, entry, exit, perfect, walls,
                   visited, enabled, frontier, stack, carved, removed, route>>

----------------------------------------------------------------------------
(* Loop injection *)

Internal == algo \in {"iprim", "idfs"}

Rendering == algo \in {"aprim", "adfs"}

RECURSIVE RemoveAll(_, _)
RemoveAll(ws, rs) ==
    IF rs = <<>> THEN ws
    ELSE RemoveAll(remove_wall_between(ws, rs[1][1], rs[1][2], rs[1][3]), Tail(rs))

\* the orders in which random.sample can return k elements of the set s
Samples(s, k) == { q \in [1 .. k -> s] : \A i, j \in 1 .. k : i # j => q[i] # q[j] }

\* rendering/animated_maze_with_pattern.py: the shortcuts list of _make_imperfect
shortcuts(ws, coords) ==
    { t \in Range(coords) \X Range(coords) \X DirSet :
        /\ t[2] = Step(t[1], t[3])
        /\ Abs(Index(coords, t[2]) - Index(coords, t[1])) > 1
        /\ has_wall(ws[t[1]], t[3]) }

\* defect: the neighbour's enabled flag is not checked
all_candidates_AnyNeighbor(ws, w, h, en) ==
    { t \in Cells(w, h) \X Cells(w, h) \X {"E", "S"} :
        /\ en[t[1]]
        /\ t[2] = Step(t[1], t[3])
        /\ has_wall(ws[t[1]], t[3]) }

\* rendering/animated_maze_with_pattern.py: the all_candidates list of _make_imperfect
all_candidates(ws, w, h, en) ==
    { t \in Cells(w, h) \X Cells(w, h) \X {"E", "S"} :
        /\ en[t[1]]
        /\ t[2] = Step(t[1], t[3])
        /\ en[t[2]]
        /\ has_wall(ws[t[1]], t[3]) }

\* AnimatedMazeGeneratorWithPattern._make_imperfect, after generator.generate returned
MakeImperfect ==
    /\ pc = "generated"
    /\ Rendering
    /\ ~perfect
    /\ LET path_str == find_path(walls, width, height, entry, exit)
           coords == path_coords(entry, path_str)
           sc == shortcuts(walls, coords)
           cands == all_candidates(walls, width, height, enabled)
           count_to_remove == Max(1, Cardinality(cands) \div 20)
       IN \E first \in IF sc = {} THEN {<<>>} ELSE { <<t>> : t \in sc } :
            LET remaining == cands \ Range(first)
            IN \E picks \in Samples(remaining,
                                    Min(Cardinality(remaining), count_to_remove)) :
                 LET to_remove == first \o picks
                 IN IF algo = "adfs" /\ to_remove # <<>>
                    THEN \* algorithms/dfs.py has no remove_wall_between:
                         \* the first removal raises AttributeError
                         /\ UNCHANGED <<removed, walls>>
                         /\ route' = path_str
                         /\ pc' = "raised"
                    ELSE /\ removed' = to_remove
                         /\ walls' = RemoveAll(walls, removed')
                         /\ route' = path_str
                         /\ pc' = "done"
    /\ UNCHANGED detvars
    /\ UNCHANGED recvars
    /\ UNCHANGED <<algo, start, width, height, pattern, entry, exit, perfect, visited,
                   enabled, frontier, stack, carved>>

\* the walls one attempt of _remove_extra_walls can remove
ExtraWalls(ws, w, h, p) ==
    { t \in (Cells(w, h) \ p) \X (Cells(w, h) \ p) \X DirSet :
        /\ t[2] = Step(t[1], t[3])
        /\ has_wall(ws[t[1]], t[3]) }

\* the removal lists the attempt loop of _remove_extra_walls can produce: it
\* stops after k removals, or earlier when the attempts run out
RECURSIVE ExtraWallRuns(_, _, _, _, _)
ExtraWallRuns(ws, w, h, p, k) ==
    IF k = 0 THEN { <<>> }
    ELSE { <<>> } \cup
         UNION { { <<t>> \o r :
                     r \in ExtraWallRuns(remove_wall_between(ws, t[1], t[2], t[3]),
                                         w, h, p, k - 1) } :
                 t \in ExtraWalls(ws, w, h, p) }

\* MazeGeneratorWithAnimation._remove_extra_walls, after generator.generate returned
RemoveExtraWalls ==
    /\ pc = "generated"
    /\ Internal
    /\ ~perfect
    /\ LET extra_walls_to_remove == (width * height) \div 20
       IN \E run \in ExtraWallRuns(walls, width, height, pattern,
                                   extra_walls_to_remove) :
            /\ removed' = run
            /\ walls' = RemoveAll(walls, run)
    /\ pc' = "done"
    /\ UNCHANGED detvars
    /\ UNCHANGED recvars
    /\ UNCHANGED <<algo, start, width, height, pattern, entry, exit, perfect, visited,
                   enabled, frontier, stack, carved, route>>

\* a perfect run: generate returns the grid as carved
Return ==
    /\ pc = "generated"
    /\ ~Pipeline
    /\ perfect
    /\ pc' = "done"
    /\ UNCHANGED detvars
    /\ UNCHANGED recvars
    /\ UNCHANGED <<algo, start, width, height, pattern, entry, exit, perfect, walls,
                   visited, enabled, frontier, stack, carved, removed, route>>

Next ==
    \/ PrimStart \/ PrimStep \/ DfsStart \/ DfsStep
    \/ APrimStart \/ APrimStep \/ ADfsStart \/ ADfsStep
    \/ MPrimStart \/ MPrimStep \/ MDfsStart \/ MDfsStep
    \/ StorePath \/ WriteOutput
    \/ MakeImperfect \/ RemoveExtraWalls \/ Return

Spec == Init /\ [][Next]_vars

\* the steps of one generate() call
GenerateSteps ==
    \/ PrimStart \/ PrimStep \/ DfsStart \/ DfsStep
    \/ APrimStart \/ APrimStep \/ ADfsStart \/ ADfsStep
    \/ MPrimStart \/ MPrimStep \/ MDfsStart \/ MDfsStep

\* a generate() call that was started keeps running: nothing suspends its loop
SpecLive == Spec /\ WF_vars(GenerateSteps)

----------------------------------------------------------------------------
(* find_path as a function of its arguments: any matrix of carved          *)
(* passages with at most MaxClears wall bits cleared on one side only,     *)
(* entry at a corner, any exit                                             *)

PathSizes == { g \in (1 .. MaxPathCells) \X (1 .. MaxPathCells) : g[1] * g[2] <= MaxPathCells }

ClearedBits(ws, w, h) == { t \in Cells(w, h) \X DirSet : ~has_wall(ws[t[1]], t[2]) }

\* cleared wall bits whose other side is missing or still set
OneSided(ws, w, h) ==
    { t \in ClearedBits(ws, w, h) :
        \/ ~InBounds(Step(t[1], t[2]), w, h)
        \/ has_wall(ws[Step(t[1], t[2])], opposite(t[2])) }

InitPath ==
    \E g \in PathSizes :
        \E en \in Corners(g[1], g[2]), ex \in Cells(g[1], g[2]) :
            /\ algo = "path"
            /\ AnyDraws
            /\ NoRecorder
            /\ width = g[1]
            /\ height = g[2]
            /\ pattern = {}
            /\ entry = en
            /\ exit = ex
            /\ perfect = TRUE
            /\ walls = [c \in Cells(g[1], g[2]) |-> AllWalls]
            /\ visited = [c \in Cells(g[1], g[2]) |-> FALSE]
            /\ enabled = [c \in Cells(g[1], g[2]) |-> TRUE]
            /\ frontier = <<>>
            /\ stack = <<>>
            /\ start = <<>>
            /\ carved = <<>>
            /\ removed = <<>>
            /\ route = <<>>
            /\ pc = "matrix"

\* remove_wall_between on the matrix handed to find_path
Carve ==
    /\ pc = "matrix"
    /\ OneSided(walls, width, height) = {}
    /\ \E c \in Cells(width, height), d \in DirSet :
         /\ InBounds(Step(c, d), width, height)
         /\ has_wall(walls[c], d)
         /\ walls' = remove_wall_between(walls, c, Step(c, d), d)
    /\ UNCHANGED detvars
    /\ UNCHANGED recvars
    /\ UNCHANGED <<algo, width, height, pattern, entry, exit, perfect, visited,
                   enabled, frontier, stack, start, carved, removed, route, pc>>

\* Cell.remove_wall on one cell of the matrix handed to find_path
ClearBit ==
    /\ pc = "matrix"
    /\ Cardinality(OneSided(walls, width, height)) < MaxClears
    /\ \E c \in Cells(width, height), d \in DirSet :
         /\ has_wall(walls[c], d)
         /\ walls' = [walls EXCEPT ![c] = remove_wall(walls[c], d)]
    /\ UNCHANGED detvars
    /\ UNCHANGED recvars
    /\ UNCHANGED <<algo, width, height, pattern, entry, exit, perfect, visited,
                   enabled, frontier, stack, start, carved, removed, route, pc>>

\* path_str = find_path(grid_state, entry, exit_coords)
Solve ==
    /\ pc = "matrix"
    /\ route' = find_path(walls, width, height, entry, exit)
    /\ pc' = "solved"
    /\ UNCHANGED detvars
    /\ UNCHANGED recvars
    /\ UNCHANGED <<algo, width, height, pattern, entry, exit, perfect, walls,
                   visited, enabled, frontier, stack, start, carved, removed>>

NextPath == Carve \/ ClearBit \/ Solve

SpecPath == InitPath /\ [][NextPath]_vars

----------------------------------------------------------------------------
(* The three writers applied to any matrix of carved passages, with the    *)
(* route find_path returns for it; algo names the writer the program uses  *)

InitExport ==
    \E a \in {"write_to_file", "save_to_file", "write_to_hex_file"}, g \in PathSizes :
        \E en \in Corners(g[1], g[2]), ex \in Cells(g[1], g[2]) :
            /\ algo = a
            /\ AnyDraws
            /\ NoRecorder
            /\ width = g[1]
            /\ height = g[2]
            /\ pattern = {}
            /\ entry = en
            /\ exit = ex
            /\ perfect = TRUE
            /\ walls = [c \in Cells(g[1], g[2]) |-> AllWalls]
            /\ visited = [c \in Cells(g[1], g[2]) |-> FALSE]
            /\ enabled = [c \in Cells(g[1], g[2]) |-> TRUE]
            /\ frontier = <<>>
            /\ stack = <<>>
            /\ start = <<>>
            /\ carved = <<>>
            /\ removed = <<>>
            /\ route = <<>>
            /\ pc = "matrix"

\* MazeGenerator.run: path_str = find_path(...); write_to_file(..., path_str)
WriteToFile ==
    /\ pc = "matrix"
    /\ algo = "write_to_file"
    /\ route' = find_path(walls, width, height, entry, exit)
    /\ output_file' = write_to_file(walls, width, height, entry, exit, route')
    /\ pc' = "written"
    /\ UNCHANGED detvars
    /\ UNCHANGED <<frames, rendered>>
    /\ UNCHANGED <<algo, width, height, pattern, entry, exit, perfect, walls,
                   visited, enabled, frontier, stack, start, carved, removed>>

\* AnimatedMazeGeneratorWithPattern.write_to_hex_file(file, entry, exit, path)
SaveToFile ==
    /\ pc = "matrix"
    /\ algo = "save_to_file"
    /\ route' = find_path(walls, width, height, entry, exit)
    /\ output_file' = save_to_file(walls, width, height, entry, exit, route')
    /\ pc' = "written"
    /\ UNCHANGED detvars
    /\ UNCHANGED <<frames, rendered>>
    /\ UNCHANGED <<algo, width, height, pattern, entry, exit, perfect, walls,
                   visited, enabled, frontier, stack, start, carved, removed>>

\* MazeGeneratorWithAnimation.write_to_hex_file(file, entry, exit)
WriteToHexFile ==
    /\ pc = "matrix"
    /\ algo = "write_to_hex_file"
    /\ route' = find_path(walls, width, height, entry, exit)
    /\ output_file' = write_to_hex_file(walls, width, height, entry, exit)
    /\ pc' = "written"
    /\ UNCHANGED detvars
    /\ UNCHANGED <<frames, rendered>>
    /\ UNCHANGED <<algo, width, height, pattern, entry, exit, perfect, walls,
                   visited, enabled, frontier, stack, start, carved, removed>>

NextExport == Carve \/ WriteToFile \/ SaveToFile \/ WriteToHexFile

SpecExport == InitExport /\ [][NextExport]_vars

----------------------------------------------------------------------------
(* get_pattern_cells as a function of its arguments: any grid up to        *)
(* MaxMargin cells wider and taller than the template, any entry and exit  *)
(* (or none given), followed by the construction of the generator          *)

\* entry=None / exit_coords=None
None == <<>>

EmbedSizes ==
    (1 .. Len(PATTERN_42[1]) + MaxMargin) \X (1 .. Len(PATTERN_42) + MaxMargin)

InitEmbed ==
    \E g \in EmbedSizes :
        \E en \in Cells(g[1], g[2]) \cup {None}, ex \in Cells(g[1], g[2]) \cup {None} :
            /\ algo = "embed"
            /\ AnyDraws
            /\ NoRecorder
            /\ width = g[1]
            /\ height = g[2]
            /\ pattern = {}
            /\ entry = en
            /\ exit = ex
            /\ perfect = TRUE
            /\ walls = [c \in Cells(g[1], g[2]) |-> AllWalls]
            /\ visited = [c \in Cells(g[1], g[2]) |-> FALSE]
            /\ enabled = [c \in Cells(g[1], g[2]) |-> TRUE]
            /\ frontier = <<>>
            /\ stack = <<>>
            /\ start = <<>>
            /\ carved = <<>>
            /\ removed = <<>>
            /\ route = <<>>
            /\ pc = "args"

\* pattern_cells = get_pattern_cells(width, height, entry=entry, exit_coords=exit_coords)
Embed ==
    /\ pc = "args"
    /\ pattern' = get_pattern_cells(width, height, PATTERN_42, entry, exit)
    /\ pc' = "embedded"
    /\ UNCHANGED detvars
    /\ UNCHANGED recvars
    /\ UNCHANGED <<algo, width, height, entry, exit, perfect, walls, visited,
                   enabled, frontier, stack, start, carved, removed, route>>

\* AnimatableMazeGenerator(algorithm, width, height, seed, pattern_cells)
Protect ==
    /\ pc = "embedded"
    /\ visited' = [c \in Cells(width, height) |-> c \in pattern]
    /\ enabled' = [c \in Cells(width, height) |-> c \notin pattern]
    /\ pc' = "protected"
    /\ UNCHANGED detvars
    /\ UNCHANGED recvars
    /\ UNCHANGED <<algo, width, height, pattern, entry, exit, perfect, walls,
                   frontier, stack, start, carved, removed, route>>

NextEmbed == Embed \/ Protect

SpecEmbed == InitEmbed /\ [][NextEmbed]_vars

----------------------------------------------------------------------------
(* Frame recorders: MazeGeneratorWithAnimation (internal/maze_with_animation.py) *)
(* around the internal generators, and AnimatedMazeGenerator               *)
(* (internal/animated_maze_generator.py), algo = "amg".  run_no counts the *)
(* generate() calls made on the recorder.                                  *)
(*                                                                         *)
(* An AnimationFrame holds references to a wall matrix and a visited set.  *)
(* `shared` tells whether these are the live objects of the grid (then the *)
(* frame shows whatever the grid holds now) or objects built for the frame.*)
(* `call` is history: the number of the generate() call that captured it.  *)

VisitedCells(vis) == { c \in DOMAIN vis : vis[c] }

\* defect: the frame keeps the live wall matrix and visited set
_capture_frame_Alias(fs, ws, vis, current_pos, description, n) ==
    Append(fs, [grid_state |-> ws,
                visited_cells |-> VisitedCells(vis),
                current_cell |-> current_pos,
                description |-> description,
                shared |-> TRUE,
                call |-> n])

\* grid_state is built by a list comprehension over cell.walls, visited_cells
\* by a set comprehension / set.copy(): both are new objects
_capture_frame(fs, ws, vis, current_pos, description, n) ==
    Append(fs, [grid_state |-> ws,
                visited_cells |-> VisitedCells(vis),
                current_cell |-> current_pos,
                description |-> description,
                shared |-> FALSE,
                call |-> n])

\* what reading frame.grid_state / frame.visited_cells yields now
grid_state_of(f, ws) == IF f.shared THEN ws ELSE f.grid_state

visited_cells_of(f, vis) == IF f.shared THEN VisitedCells(vis) ELSE f.visited_cells

InitFrames ==
    \E a \in {"iprim", "idfs", "amg"}, g \in Sizes, pf \in BOOLEAN :
        \E p \in SmallPatterns(g[1], g[2]) :
            /\ a = "amg" => (p = {} /\ pf)
            /\ algo = a
            /\ width = g[1]
            /\ height = g[2]
            /\ pattern = p
            /\ entry = <<0, 0>>
            /\ exit = <<g[1] - 1, g[2] - 1>>
            /\ perfect = pf
            /\ walls = [c \in Cells(g[1], g[2]) |-> AllWalls]
            /\ visited = [c \in Cells(g[1], g[2]) |-> c \in p]
            /\ enabled = [c \in Cells(g[1], g[2]) |-> c \notin p]
            /\ frontier = <<>>
            /\ stack = <<>>
            /\ start = <<>>
            /\ carved = <<>>
            /\ removed = <<>>
            /\ route = <<>>
            /\ seed = 0
            /\ rng = 0
            /\ run_no = 0
            /\ first_walls = <<>>
            /\ NoRecorder
            /\ pc = "idle"

\* MazeGeneratorWithAnimation.generate up to generator.generate(): the list
\* is replaced, a new generator is constructed, its initial state captured
RecorderBegin ==
    /\ pc \in {"idle", "done"}
    /\ Internal
    /\ run_no < MaxCalls
    /\ run_no' = run_no + 1
    /\ walls' = [c \in Cells(width, height) |-> AllWalls]
    /\ visited' = [c \in Cells(width, height) |-> c \in pattern]
    /\ frontier' = <<>>
    /\ stack' = <<>>
    /\ start' = <<>>
    /\ carved' = <<>>
    /\ removed' = <<>>
    /\ frames' = _capture_frame(<<>>, walls', visited', <<>>, "Initial state", run_no')
    /\ pc' = "new"
    /\ UNCHANGED <<algo, width, height, pattern, entry, exit, perfect, enabled,
                   route, seed, rng, first_walls, rendered, output_file>>

\* the frames _remove_extra_walls captures while it removes run[k], run[k+1], ...
RECURSIVE RemovalFrames(_, _, _, _, _, _)
RemovalFrames(fs, ws, vis, run, k, n) ==
    IF k > Len(run) THEN fs
    ELSE LET after == remove_wall_between(ws, run[k][1], run[k][2], run[k][3])
         IN RemovalFrames(IF k % 5 = 0
                          THEN _capture_frame(fs, after, vis, <<>>, "Removed extra walls", n)
                          ELSE fs,
                          after, vis, run, k + 1, n)

\* MazeGeneratorWithAnimation.generate after generator.generate() returned
RecorderFinish ==
    /\ pc = "generated"
    /\ Internal
    /\ LET done == _capture_frame(frames, walls, visited, <<>>,
                                  "Generation complete", run_no)
       IN IF perfect
          THEN /\ frames' = _capture_frame(done, walls, visited, <<>>, "Complete", run_no)
               /\ UNCHANGED <<walls, removed>>
          ELSE LET extra_walls_to_remove == (width * height) \div 20
                   creating == _capture_frame(done, walls, visited, <<>>,
                                              "Creating multiple paths...", run_no)
               IN \E run \in ExtraWallRuns(walls, width, height, pattern,
                                           extra_walls_to_remove) :
                    /\ removed' = run
                    /\ walls' = RemoveAll(walls, run)
                    /\ frames' = _capture_frame(
                           RemovalFrames(creating, walls, visited, run, 1, run_no),
                           walls', visited, <<>>, "Complete", run_no)
    /\ pc' = "done"
    /\ UNCHANGED <<algo, start, width, height, pattern, entry, exit, perfect, visited,
                   enabled, frontier, stack, carved, route, rendered, output_file>>
    /\ UNCHANGED detvars

\* AnimatedMazeGenerator.generate: the capture after the while loop
AmgExit(fs, ws, vis, work, n) ==
    IF work = <<>>
    THEN _capture_frame(fs, ws, vis, <<>>, "Maze generation complete!", n)
    ELSE fs

AmgPc(work) == IF work = <<>> THEN "done" ELSE "gen"

\* AnimatedMazeGenerator.generate up to the while loop (and past it when the
\* start cell has no neighbour); the same grid and frame list serve every call
AmgStart ==
    /\ pc \in {"idle", "done"}
    /\ algo = "amg"
    /\ run_no < MaxCalls
    /\ run_no' = run_no + 1
    /\ \E start_cell \in Cells(width, height) :
         LET initial == _capture_frame(frames, walls, visited, <<>>,
                                       "Initial state - all walls intact", run_no')
             starting == _capture_frame(initial, walls, visited', start_cell,
                                        "Starting at cell", run_no')
             added == _capture_frame(starting, walls, visited', start_cell,
                                     "Added walls to frontier", run_no')
         IN /\ start' = start_cell
            /\ visited' = [visited EXCEPT ![start_cell] = TRUE]
            /\ frontier' = Edges(start_cell, get_neighbors(start_cell, width, height))
            /\ frames' = AmgExit(added, walls, visited', frontier', run_no')
            /\ pc' = AmgPc(frontier')
    /\ carved' = <<>>
    /\ UNCHANGED <<algo, width, height, pattern, entry, exit, perfect, walls, enabled,
                   stack, removed, route, seed, rng, first_walls, rendered,
                   output_file>>

\* one pass of the while loop of AnimatedMazeGenerator.generate
AmgStep ==
    /\ pc = "gen"
    /\ algo = "amg"
    /\ \E wall_index \in 1 .. Len(frontier) :
         LET e == frontier[wall_index]
             rest == RemoveAt(frontier, wall_index)
         IN IF ~visited[e[2]]
            THEN LET new == Edges(e[2], get_unvisited_neighbors(e[2], width, height,
                                                                 visited'))
                     step == _capture_frame(frames, walls', visited', e[2],
                                            "Carved", run_no)
                     more == IF Len(new) > 0
                             THEN _capture_frame(step, walls', visited', e[2],
                                                 "Added new frontier walls", run_no)
                             ELSE step
                 IN /\ walls' = remove_wall_between(walls, e[1], e[2], e[3])
                    /\ visited' = [visited EXCEPT ![e[2]] = TRUE]
                    /\ frontier' = rest \o new
                    /\ carved' = Append(carved, e)
                    /\ frames' = AmgExit(more, walls', visited', frontier', run_no)
            ELSE /\ frontier' = rest
                 /\ frames' = AmgExit(frames, walls, visited, rest, run_no)
                 /\ UNCHANGED <<walls, visited, carved>>
    /\ pc' = AmgPc(frontier')
    /\ UNCHANGED <<algo, start, width, height, pattern, entry, exit, perfect, enabled,
                   stack, removed, route, rendered, output_file>>
    /\ UNCHANGED detvars

\* the indices a caller may pass: every valid one and MaxOvershoot on each side
\* of -len(frames) .. len(frames) - 1
Indices(fs) == -(Len(fs) + MaxOvershoot) .. (Len(fs) - 1 + MaxOvershoot)

\* MazeGeneratorWithAnimation.render_frame_simple(index): rendered holds the
\* index, the kind of outcome and the 1-based position of the frame rendered
RenderFrameSimple ==
    /\ pc \in {"idle", "done"}
    /\ Internal
    /\ \E index \in Indices(frames) :
         rendered' =
             IF frames = <<>> THEN <<index, "empty string", 0>>
             ELSE IF index >= -Len(frames) /\ index < Len(frames)
                  THEN <<index, "frame",
                         IF index < 0 THEN Len(frames) + index + 1 ELSE index + 1>>
                  ELSE <<index, "IndexError", 0>>
    /\ pc' = "rendered"
    /\ UNCHANGED <<algo, start, width, height, pattern, entry, exit, perfect, walls,
                   visited, enabled, frontier, stack, carved, removed, route, frames,
                   output_file>>
    /\ UNCHANGED detvars

\* AnimatedMazeGenerator.render_frame_ascii(frame_index)
RenderFrameAscii ==
    /\ pc \in {"idle", "done"}
    /\ algo = "amg"
    /\ \E frame_index \in Indices(frames) :
         rendered' =
             IF frame_index < 0 \/ frame_index >= Len(frames)
             THEN <<frame_index, "Invalid frame index", 0>>
             ELSE <<frame_index, "frame", frame_index + 1>>
    /\ pc' = "rendered"
    /\ UNCHANGED <<algo, start, width, height, pattern, entry, exit, perfect, walls,
                   visited, enabled, frontier, stack, carved, removed, route, frames,
                   output_file>>
    /\ UNCHANGED detvars

NextFrames ==
    \/ RecorderBegin \/ PrimStart \/ PrimStep \/ DfsStart \/ DfsStep \/ RecorderFinish
    \/ AmgStart \/ AmgStep
    \/ RenderFrameSimple \/ RenderFrameAscii

SpecFrames == InitFrames /\ [][NextFrames]_vars

----------------------------------------------------------------------------
(* Seeded runs: MazeGeneratorWithAnimation(width, height, seed=s).generate *)
(* called twice with the same arguments.  The module-level generator of    *)
(* `random` is a deterministic state machine: random.seed sets its state,  *)
(* every draw reads the state and advances it.  A 16-state congruential    *)
(* generator stands for it.                                                *)

random_seed(s) == s % 16

NextRng(r) == (5 * r + 3) % 16

\* the value a draw among n alternatives returns in state r
randbelow(r, n) == (r \div 2) % n

\* defect: the seed is not applied
Reseed_Skip(r, sd) == r

\* MazeGeneratorBase.__init__: if seed is not None: random.seed(seed)
Reseed(r, sd) == random_seed(sd)

InitDet ==
    \E a \in {"iprim", "idfs"}, g \in Sizes, sd \in 0 .. MaxSeed :
        \E p \in SmallPatterns(g[1], g[2]), r \in 0 .. 15 :
            /\ Construct(a, g[1], g[2], p, <<0, 0>>, <<g[1] - 1, g[2] - 1>>, TRUE)
            /\ seed = sd
            /\ rng = Reseed(r, sd)
            /\ run_no = 1
            /\ first_walls = <<>>
            /\ NoRecorder

DetPrimStart ==
    /\ LET n == Len(non_pattern_cells(width, height, pattern))
       IN IF n = 0
          THEN PrimStartAt(1) /\ rng' = rng
          ELSE PrimStartAt(1 + randbelow(rng, n)) /\ rng' = NextRng(rng)
    /\ UNCHANGED <<seed, run_no, first_walls>>
    /\ UNCHANGED recvars

DetPrimStep ==
    /\ pc = "gen"
    /\ algo = "iprim"
    /\ PrimStepAt(1 + randbelow(rng, Len(frontier)))
    /\ rng' = NextRng(rng)
    /\ UNCHANGED <<seed, run_no, first_walls>>
    /\ UNCHANGED recvars

DetDfsStart ==
    /\ DfsBegin
    /\ UNCHANGED <<seed, rng, run_no, first_walls>>
    /\ UNCHANGED recvars

DetDfsStep ==
    /\ pc = "gen"
    /\ algo = "idfs"
    /\ LET n == Len(get_unvisited_neighbors(stack[Len(stack)], width, height, visited))
       IN IF n = 0
          THEN DfsStepAt(1) /\ rng' = rng
          ELSE DfsStepAt(1 + randbelow(rng, n)) /\ rng' = NextRng(rng)
    /\ UNCHANGED <<seed, run_no, first_walls>>
    /\ UNCHANGED recvars

\* a second generator is constructed with the same arguments and generates
Regenerate ==
    /\ pc = "generated"
    /\ run_no = 1
    /\ run_no' = 2
    /\ first_walls' = walls
    /\ rng' = Reseed(rng, seed)
    /\ walls' = [c \in Cells(width, height) |-> AllWalls]
    /\ visited' = [c \in Cells(width, height) |-> c \in pattern]
    /\ frontier' = <<>>
    /\ stack' = <<>>
    /\ start' = <<>>
    /\ carved' = <<>>
    /\ pc' = "new"
    /\ UNCHANGED recvars
    /\ UNCHANGED <<seed, algo, width, height, pattern, entry, exit, perfect,
                   enabled, removed, route>>

NextDet == DetPrimStart \/ DetPrimStep \/ DetDfsStart \/ DetDfsStep \/ Regenerate

SpecDet == InitDet /\ [][NextDet]_vars

----------------------------------------------------------------------------
(* Replay: AnimatedMazeGeneratorWithPattern(..., seed=s, perfect=True),    *)
(* generate() and then play_animation().  Both reseed the module-level     *)
(* generator with self.seed, so every draw is a function of rng.           *)

InitReplay ==
    \E a \in {"aprim", "adfs"}, g \in Sizes, sd \in 0 .. MaxSeed :
        \E p \in SmallPatterns(g[1], g[2]) :
            \E en \in Cells(g[1], g[2]) \ p :
                /\ <<g[1] - 1, g[2] - 1>> \notin p
                /\ Construct(a, g[1], g[2], p, en, <<g[1] - 1, g[2] - 1>>, TRUE)
                /\ seed = sd
                /\ rng = random_seed(sd)
                /\ run_no = 1
                /\ first_walls = <<>>
                /\ NoRecorder

ReplayPrimStep ==
    /\ pc = "gen"
    /\ algo = "aprim"
    /\ APrimStepAt(1 + randbelow(rng, Len(frontier)))
    /\ rng' = NextRng(rng)
    /\ UNCHANGED <<seed, run_no, first_walls>>
    /\ UNCHANGED recvars

ReplayDfsStep ==
    /\ pc = "gen"
    /\ algo = "adfs"
    /\ LET n == Len(_get_unvisited_neighbors(stack[Len(stack)], width, height,
                                             visited, enabled))
       IN IF n = 0
          THEN ADfsStepAt(1) /\ rng' = rng
          ELSE ADfsStepAt(1 + randbelow(rng, n)) /\ rng' = NextRng(rng)
    /\ UNCHANGED <<seed, run_no, first_walls>>
    /\ UNCHANGED recvars

\* play_animation lines 190-200: walls = 15 and visited = False everywhere,
\* pattern cells visited and disabled again
ResetVisited(w, h, p) == [c \in Cells(w, h) |-> c \in p]

\* play_animation with a Prim generator, up to the while loop of the
\* generate(start_x=0, start_y=0, callback) that animate_generation calls;
\* first_walls keeps the wall masks the grid held before the call
PlayAnimationPrim ==
    /\ pc = "done"
    /\ algo = "aprim"
    /\ run_no = 1
    /\ run_no' = 2
    /\ first_walls' = walls
    /\ rng' = random_seed(seed)
    /\ walls' = [c \in Cells(width, height) |-> AllWalls]
    /\ enabled' = [c \in Cells(width, height) |-> enabled[c] /\ c \notin pattern]
    /\ start' = <<0, 0>>
    /\ visited' = [ResetVisited(width, height, pattern) EXCEPT ![<<0, 0>>] = TRUE]
    /\ frontier' = Edges(<<0, 0>>, get_neighbors(<<0, 0>>, width, height))
    /\ carved' = <<>>
    /\ pc' = LoopExit(frontier')
    /\ UNCHANGED recvars
    /\ UNCHANGED <<seed, algo, width, height, pattern, entry, exit, perfect, stack,
                   removed, route>>

\* play_animation with a DFS generator: after the reset animate_generation
\* calls generate(start_x=0, start_y=0, callback=update_frame), which
\* algorithms/dfs.py does not accept: TypeError leaves the grid as reset
PlayAnimationDfs ==
    /\ pc = "done"
    /\ algo = "adfs"
    /\ run_no = 1
    /\ run_no' = 2
    /\ first_walls' = walls
    /\ rng' = random_seed(seed)
    /\ walls' = [c \in Cells(width, height) |-> AllWalls]
    /\ enabled' = [c \in Cells(width, height) |-> enabled[c] /\ c \notin pattern]
    /\ visited' = ResetVisited(width, height, pattern)
    /\ pc' = "raised"
    /\ UNCHANGED recvars
    /\ UNCHANGED <<seed, algo, start, width, height, pattern, entry, exit, perfect,
                   frontier, stack, carved, removed, route>>

NextReplay ==
    \/ APrimStart \/ ReplayPrimStep \/ ADfsStart \/ ReplayDfsStep \/ Return
    \/ PlayAnimationPrim \/ PlayAnimationDfs

SpecReplay == InitReplay /\ [][NextReplay]_vars

----------------------------------------------------------------------------
(* get_neighbors as a function of its arguments: every cell of every grid  *)
(* of at most MaxSide x MaxSide cells; start holds the cell, frontier the  *)
(* list returned, each entry prefixed with the cell as Prim's set-up does  *)

InitNeighbors ==
    \E g \in (1 .. MaxSide) \X (1 .. MaxSide) :
        \E c \in Cells(g[1], g[2]) :
            /\ algo = "neighbors"
            /\ AnyDraws
            /\ NoRecorder
            /\ width = g[1]
            /\ height = g[2]
            /\ pattern = {}
            /\ entry = <<0, 0>>
            /\ exit = <<g[1] - 1, g[2] - 1>>
            /\ perfect = TRUE
            /\ walls = [d \in Cells(g[1], g[2]) |-> AllWalls]
            /\ visited = [d \in Cells(g[1], g[2]) |-> FALSE]
            /\ enabled = [d \in Cells(g[1], g[2]) |-> TRUE]
            /\ frontier = <<>>
            /\ stack = <<>>
            /\ start = c
            /\ carved = <<>>
            /\ removed = <<>>
            /\ route = <<>>
            /\ pc = "args"

\* for neighbor, direction in self.get_neighbors(start_cell): frontier.append(...)
GetNeighbors ==
    /\ pc = "args"
    /\ frontier' = Edges(start, get_neighbors(start, width, height))
    /\ pc' = "returned"
    /\ UNCHANGED detvars
    /\ UNCHANGED recvars
    /\ UNCHANGED <<algo, start, width, height, pattern, entry, exit, perfect, walls,
                   visited, enabled, stack, carved, removed, route>>

NextNeighbors == GetNeighbors

SpecNeighbors == InitNeighbors /\ [][NextNeighbors]_vars

----------------------------------------------------------------------------
(* Two generators in one process.  random.seed and random.choice act on    *)
(* the one module-level generator of `random`: a generator constructed     *)
(* with a seed reseeds it for every instance, a generator that runs        *)
(* advances it for every instance.  The first instance generates right     *)
(* after its construction; the second one, constructed with the same       *)
(* arguments, generates after another generator was constructed or ran.    *)

\* MazeGeneratorBase.__init__ of another instance, with seed other_seed
ConstructOther ==
    /\ pc = "new"
    /\ run_no = 2
    /\ \E other_seed \in 0 .. MaxSeed : rng' = Reseed(rng, other_seed)
    /\ UNCHANGED <<seed, run_no, first_walls>>
    /\ UNCHANGED recvars
    /\ UNCHANGED <<algo, width, height, pattern, entry, exit, perfect, walls,
                   visited, enabled, frontier, stack, start, carved, removed,
                   route, pc>>

\* one random.choice drawn by the generate() of another instance
RunOther ==
    /\ pc = "new"
    /\ run_no = 2
    /\ rng' = NextRng(rng)
    /\ UNCHANGED <<seed, run_no, first_walls>>
    /\ UNCHANGED recvars
    /\ UNCHANGED <<algo, width, height, pattern, entry, exit, perfect, walls,
                   visited, enabled, frontier, stack, start, carved, removed,
                   route, pc>>

NextIsolate ==
    \/ DetPrimStart
    \/ DetPrimStep
    \/ DetDfsStart
    \/ DetDfsStep
    \/ Regenerate
    \/ ConstructOther
    \/ RunOther

SpecIsolate == InitDet /\ [][NextIsolate]_vars

----------------------------------------------------------------------------
(* generate() called a second time on the same generator object: the grid  *)
(* keeps the walls and the visited flags the first call left; each         *)
(* generate() starts with its own empty frontier or stack.                 *)

InitAgain ==
    /\ \/ InitInternal
       \/ InitRendering
    /\ algo \in {"iprim", "idfs", "adfs"}
    /\ perfect
    /\ AnyDraws
    /\ NoRecorder

\* the first call has returned self.grid; generate() is entered again
GenerateAgain ==
    /\ pc = "generated"
    /\ run_no = 1
    /\ run_no' = 2
    /\ first_walls' = walls
    /\ frontier' = <<>>
    /\ stack' = <<>>
    /\ carved' = <<>>
    /\ pc' = "new"
    /\ UNCHANGED recvars
    /\ UNCHANGED <<seed, rng, algo, width, height, pattern, entry, exit, perfect,
                   walls, visited, enabled, start, removed, route>>

NextAgain ==
    \/ PrimStart
    \/ PrimStep
    \/ DfsStart
    \/ DfsStep
    \/ ADfsStart
    \/ ADfsStep
    \/ GenerateAgain

SpecAgain == InitAgain /\ [][NextAgain]_vars

----------------------------------------------------------------------------
(* Graph notions used to state the properties *)

\* the wall between c and its neighbour in direction d is open on both sides
OpenBetween(ws, c, d) ==
    ~has_wall(ws[c], d) /\ ~has_wall(ws[Step(c, d)], opposite(d))

\* carved passages: each wall between two cells counted once, from its west or north cell
Passages(ws, w, h) ==
    { t \in Cells(w, h) \X {"E", "S"} :
        InBounds(Step(t[1], t[2]), w, h) /\ OpenBetween(ws, t[1], t[2]) }

OpenEdges(ws, w, h) ==
    { <<t[1], Step(t[1], t[2])>> :
        t \in { u \in Cells(w, h) \X DirSet :
                  InBounds(Step(u[1], u[2]), w, h) /\ OpenBetween(ws, u[1], u[2]) } }

\* grid adjacency between cells outside the pattern
EnabledEdges(w, h, p) ==
    { <<t[1], Step(t[1], t[2])>> :
        t \in { u \in (Cells(w, h) \ p) \X DirSet : Step(u[1], u[2]) \in Cells(w, h) \ p } }

RECURSIVE ReachFrom(_, _)
ReachFrom(S, E) ==
    LET N == S \cup { e[2] : e \in { f \in E : f[1] \in S } }
    IN IF N = S THEN S ELSE ReachFrom(N, E)

EnabledCells == Cells(width, height) \ pattern

\* the enabled cells joined to the start cell by a chain of adjacent enabled cells
StartRegion ==
    IF start \in EnabledCells
    THEN ReachFrom({start}, EnabledEdges(width, height, pattern))
    ELSE {}

----------------------------------------------------------------------------
(* C1: carve symmetry.  In every state of a generation run and of loop     *)
(* injection, for adjacent in-bounds cells A and B with B in direction D   *)
(* of A, A's wall bit D is clear iff B's wall bit opposite(D) is clear.    *)

C1_CarveSymmetry ==
    pc \in {"new", "gen", "generated", "done"} =>
        \A c \in Cells(width, height), d \in DirSet :
            InBounds(Step(c, d), width, height) =>
                (~has_wall(walls[c], d) <=>
                    ~has_wall(walls[Step(c, d)], opposite(d)))

C1_Witness ==
    /\ pc = "done"
    /\ Len(carved) >= 3
    /\ removed # <<>>
    /\ \E c \in Cells(width, height) : ~has_wall(walls[c], "E")

(* C2, as claimed: when a perfect generation run finishes, every enabled   *)
(* cell is visited and no enabled cell still has walls == 15.              *)

C2_Original ==
    pc = "generated" =>
        \A c \in EnabledCells : visited[c] /\ walls[c] # AllWalls

(* C2, amended: when a perfect generation run of PrimMazeGenerator or      *)
(* DFSMazeGenerator finishes, every enabled cell joined to the start cell  *)
(* by a chain of adjacent enabled cells is visited, and has walls # 15     *)
(* unless it is the only such cell; on a grid of at least two cells        *)
(* without pattern cells that is every cell.                               *)

C2_Amended ==
    (pc = "generated" /\ Internal) =>
        /\ \A c \in StartRegion :
              /\ visited[c]
              /\ Cardinality(StartRegion) > 1 => walls[c] # AllWalls
        /\ (pattern = {} /\ width * height >= 2) =>
              \A c \in Cells(width, height) : visited[c] /\ walls[c] # AllWalls

C2_Witness ==
    /\ pc = "generated"
    /\ Internal
    /\ pattern # {}
    /\ Cardinality(StartRegion) >= 4
    /\ \A c \in StartRegion : visited[c] /\ walls[c] # AllWalls

(* C3: a perfect generation run with no pattern cells yields a spanning    *)
(* tree: exactly width*height - 1 passages and every cell joined to every  *)
(* other through open passages (connected, hence acyclic).                 *)

C3_SpanningTree ==
    (pc = "generated" /\ pattern = {}) =>
        /\ Cardinality(Passages(walls, width, height)) = width * height - 1
        /\ \A c \in Cells(width, height) :
              ReachFrom({c}, OpenEdges(walls, width, height)) = Cells(width, height)

C3_Witness ==
    /\ pc = "generated"
    /\ pattern = {}
    /\ width = 3
    /\ height = 2
    /\ Cardinality(Passages(walls, width, height)) = 5

(* C4: pattern protection.  In every state of a generation run every cell  *)
(* of the pattern mask has enabled = false, was neither the source nor the *)
(* target of a carve, and keeps walls == 15.                               *)

C4_PatternProtection ==
    pc \in {"new", "gen", "generated"} =>
        \A c \in pattern :
            /\ ~enabled[c]
            /\ walls[c] = AllWalls
            /\ \A i \in 1 .. Len(carved) : carved[i][1] # c /\ carved[i][2] # c

C4_Witness ==
    /\ pc = "generated"
    /\ pattern # {}
    /\ \E c \in pattern, d \in DirSet :
          /\ InBounds(Step(c, d), width, height)
          /\ visited[Step(c, d)]
          /\ walls[Step(c, d)] # AllWalls

(* C5: connectivity.  For a perfect maze generated on a grid on which the  *)
(* pattern fits, with the mask of get_pattern_cells applied, find_path     *)
(* returns a non-empty route between any two distinct enabled cells.       *)

C5_Connectivity ==
    ( /\ pc = "generated"
      /\ <<width, height>> \in PatternGrids
      /\ pattern = get_pattern_cells(width, height, PATTERN_42, entry, exit) ) =>
        \A a \in EnabledCells, b \in EnabledCells :
            a # b => find_path(walls, width, height, a, b) # <<>>

----------------------------------------------------------------------------
(* Reference notions for routes *)

\* steps find_path may take: the wall bit of the cell left is clear
DepartEdges(ws, w, h) ==
    { <<t[1], Step(t[1], t[2])>> :
        t \in { u \in Cells(w, h) \X DirSet :
                  InBounds(Step(u[1], u[2]), w, h) /\ ~has_wall(ws[u[1]], u[2]) } }

\* length of a shortest walk from the cells of fr to target over E, -1 if none
RECURSIVE Dist(_, _, _, _, _)
Dist(fr, seen, E, target, n) ==
    IF target \in fr THEN n
    ELSE LET next == { e[2] : e \in { f \in E : f[1] \in fr } } \ seen
         IN IF next = {} THEN -1
            ELSE Dist(next, seen \cup next, E, target, n + 1)

Symmetric(ws, w, h) ==
    \A c \in Cells(w, h), d \in DirSet :
        InBounds(Step(c, d), w, h) =>
            (has_wall(ws[c], d) <=> has_wall(ws[Step(c, d)], opposite(d)))

(* C6: determinism.  Two generation runs with the same (width, height,     *)
(* seed, algorithm, pattern) produce identical wall masks in every cell.   *)

C6_Determinism ==
    (pc = "generated" /\ run_no = 2) =>
        \A c \in Cells(width, height) : walls[c] = first_walls[c]

C6_Witness ==
    /\ pc = "generated"
    /\ run_no = 2
    /\ width = 3
    /\ height = 2
    /\ Len(carved) = 5
    /\ walls = first_walls

(* C7: find_path returns a direction string that, followed from entry,     *)
(* stays in bounds, crosses only open walls and ends at exit, of minimum   *)
(* length over all such walks; it returns the empty string if exit is not  *)
(* reachable.  A wall is open for a step when the wall bit of the cell     *)
(* left is clear; on a symmetric matrix both sides are then clear.         *)

C7_ShortestRoute ==
    pc = "solved" =>
        LET coords == path_coords(entry, route)
            d == Dist({entry}, {entry}, DepartEdges(walls, width, height), exit, 0)
        IN IF d = -1 THEN route = <<>>
           ELSE /\ Len(route) = d
                /\ coords[Len(coords)] = exit
                /\ \A i \in 1 .. Len(route) :
                      /\ InBounds(coords[i + 1], width, height)
                      /\ ~has_wall(walls[coords[i]], route[i])
                      /\ Symmetric(walls, width, height) =>
                            OpenBetween(walls, coords[i], route[i])

\* a 2 x 3 ring: the exit is two steps away one way round and four the other
C7_Witness ==
    /\ pc = "solved"
    /\ width = 2 /\ height = 3
    /\ entry = <<0, 0>> /\ exit = <<1, 1>>
    /\ has_wall(walls[<<0, 1>>], "E")
    /\ Cardinality(ClearedBits(walls, width, height)) = 12
    /\ Symmetric(walls, width, height)
    /\ Len(route) = 2

(* C8: in find_path a step from a cell to its neighbour in direction D is  *)
(* taken only if the wall bit D of the cell and the opposite wall bit of   *)
(* the neighbour are both clear, for every wall-state matrix.              *)

C8_BothSidesClear ==
    pc = "solved" =>
        LET coords == path_coords(entry, route)
        IN \A i \in 1 .. Len(route) : OpenBetween(walls, coords[i], route[i])

(* C9: after loop injection the number of carved passages is strictly      *)
(* greater than enabledCellCount - 1, for every grid size and every        *)
(* pattern.                                                                *)

C9_LoopsAdded ==
    (pc \in {"done", "raised"} /\ ~perfect) =>
        Cardinality(Passages(walls, width, height)) > Cardinality(EnabledCells) - 1

(* C10: loop injection never removes a wall incident to a disabled         *)
(* (pattern) cell, and every wall it removes is cleared on both sides.     *)

C10_InjectionRespectsPattern ==
    pc = "done" =>
        \A i \in 1 .. Len(removed) :
            /\ removed[i][1] \notin pattern
            /\ removed[i][2] \notin pattern
            /\ removed[i][2] = Step(removed[i][1], removed[i][3])
            /\ OpenBetween(walls, removed[i][1], removed[i][3])

C10_Witness ==
    /\ pc = "done"
    /\ removed # <<>>
    /\ \E c \in pattern, d \in DirSet :
          /\ InBounds(Step(c, d), width, height)
          /\ Step(c, d) \notin pattern
          /\ walls[c] = AllWalls

(* C11: generation always terminates.  For every grid size, pattern and    *)
(* sequence of random choices the frontier (Prim) or the stack (DFS)       *)
(* eventually is empty and generate() has returned.                        *)

C11_Termination == <>(pc = "generated" /\ frontier = <<>> /\ stack = <<>>)

C11_Witness ==
    /\ pc = "generated"
    /\ algo = "aprim"
    /\ pattern # {}
    /\ Len(carved) >= 4
    /\ frontier = <<>>

(* C12: get_pattern_cells never includes the entry or the exit coordinate  *)
(* in the protected set, even where the centred template covers them, and  *)
(* every coordinate it returns is inside the grid.                         *)

C12_EntryExitFree ==
    pc \in {"embedded", "protected"} =>
        /\ entry \notin pattern
        /\ exit \notin pattern
        /\ pattern \subseteq Cells(width, height)
        /\ pc = "protected" => entry = None \/ (enabled[entry] /\ ~visited[entry])

\* an 8 x 6 grid: the template is centred at offset (1, 1) and covers both
\* the entry (1, 1) and the exit (7, 5)
C12_Witness ==
    /\ pc = "protected"
    /\ width = 8 /\ height = 6
    /\ entry = <<1, 1>> /\ exit = <<7, 5>>
    /\ PATTERN_42[1][1] = 1 /\ PATTERN_42[5][7] = 1
    /\ Cardinality(pattern) = 16

(* C13: when the grid is narrower or shorter than the pattern template,    *)
(* get_pattern_cells returns the empty set, and a generation run with that *)
(* result as its pattern carves the whole grid as a run without pattern    *)
(* does: every cell is visited and joined to every other cell by the       *)
(* width*height - 1 passages.                                              *)

C13_SmallGridUnrestricted ==
    (width < Len(PATTERN_42[1]) \/ height < Len(PATTERN_42)) =>
        LET cells == get_pattern_cells(width, height, PATTERN_42, entry, exit)
        IN /\ cells = {}
           /\ (pc = "generated" /\ pattern = cells) =>
                 /\ \A c \in Cells(width, height) : visited[c]
                 /\ Cardinality(Passages(walls, width, height)) = width * height - 1
                 /\ ReachFrom({entry}, OpenEdges(walls, width, height))
                       = Cells(width, height)

\* a grid taller than the template but narrower
C13_Witness ==
    /\ pc = "generated"
    /\ width = 1
    /\ height = 6
    /\ pattern = get_pattern_cells(width, height, PATTERN_42, entry, exit)
    /\ \A c \in Cells(width, height) : walls[c] # AllWalls

(* C14: in both algorithms, if the default or requested start coordinate   *)
(* lies inside the pattern mask, generation re-picks an enabled cell: a    *)
(* pattern cell is never the start cell while an enabled cell exists.      *)

C14_StartEnabled ==
    (pc \in {"gen", "generated", "stored", "written", "done"}
       /\ start # <<>> /\ EnabledCells # {}) =>
        start \notin pattern

(* C15: if every cell of the grid is pattern-protected, generation (either *)
(* algorithm) carves nothing and leaves every cell with walls == 15.       *)

C15_AllProtectedNoOp ==
    (EnabledCells = {} /\ pc \in {"new", "gen", "generated", "stored", "written", "done"}) =>
        /\ carved = <<>>
        /\ removed = <<>>
        /\ \A c \in Cells(width, height) : walls[c] = AllWalls

C15_Witness ==
    /\ pc = "generated"
    /\ algo \in {"idfs", "mdfs"}
    /\ Cardinality(pattern) = 2
    /\ EnabledCells = {}
    /\ start = <<0, 0>>
    /\ stack = <<>>

(* C16: if find_path returns an empty route for the entry and exit of a    *)
(* freshly generated maze, the pipeline does not store the empty route or  *)
(* write the output file as if generation had succeeded.                   *)

C16_EmptyRouteFatal ==
    (Pipeline /\ entry # exit
       /\ find_path(walls, width, height, entry, exit) = <<>>) =>
        /\ pc # "stored"
        /\ output_file = <<>>

(* C17: a captured frame does not alias live grid state: whatever later    *)
(* steps do to the grid, the wall matrix and the visited set read from a   *)
(* frame of the list stay equal to the values they had at capture time.    *)

C17_FramesDetached ==
    [][\A i \in 1 .. Len(frames) :
         (run_no' = run_no \/ algo = "amg") =>
            /\ i <= Len(frames')
            /\ grid_state_of(frames'[i], walls') = grid_state_of(frames[i], walls)
            /\ visited_cells_of(frames'[i], visited')
                   = visited_cells_of(frames[i], visited)]_vars

C17_Witness ==
    /\ pc = "done"
    /\ Len(carved) >= 3
    /\ Len(frames) >= 3
    /\ frames[1].grid_state # walls
    /\ frames[1].visited_cells # VisitedCells(visited)
    /\ \A c \in Cells(width, height) : frames[1].grid_state[c] = AllWalls

(* C18: the frame sequence is cleared and rebuilt on each new generation:  *)
(* after any number of generate() calls it holds only the frames captured  *)
(* during the most recent call.                                            *)

C18_OnlyLatestFrames ==
    pc = "done" => \A i \in 1 .. Len(frames) : frames[i].call = run_no

(* C19: a frame is captured after every carve and after every wall removed *)
(* by loop injection, so the wall matrices of consecutive frames of one    *)
(* call differ by at most one removed wall.                                *)

C19_OneWallPerFrame ==
    \A i \in 1 .. Len(frames) - 1 :
        frames[i + 1].call = frames[i].call =>
            Cardinality(Passages(frames[i + 1].grid_state, width, height)
                        \ Passages(frames[i].grid_state, width, height)) <= 1

(* C20: frame access by index returns the i-th snapshot for                *)
(* 0 <= i < frameCount and fails with an out-of-range error for every      *)
(* other i; it never returns a different frame or an ordinary value.       *)

C20_IndexedAccess ==
    rendered # <<>> =>
        IF rendered[1] >= 0 /\ rendered[1] < Len(frames)
        THEN rendered[2] = "frame" /\ rendered[3] = rendered[1] + 1
        ELSE rendered[2] = "IndexError"

(* C21: replaying the animation is read-only: play_animation leaves every  *)
(* cell's walls exactly as they were before the call.                      *)

C21_ReplayReadOnly ==
    (run_no = 2 /\ pc \in {"done", "raised"}) =>
        \A c \in Cells(width, height) : walls[c] = first_walls[c]

(* C22: the exported file consists of exactly height lines of exactly      *)
(* width uppercase hex digits (the cell's 4-bit wall mask, row-major),     *)
(* then one blank line, then the line entryX,entryY, then the line         *)
(* exitX,exitY, then one line holding the route direction string, for      *)
(* every route including the empty one.                                    *)

C22_FileFormat ==
    output_file # <<>> =>
        /\ Len(output_file) = height + 4
        /\ \A y \in 1 .. height :
             /\ Len(output_file[y]) = width
             /\ \A x \in 1 .. width :
                  output_file[y][x] = HexDigits[walls[<<x - 1, y - 1>>] + 1]
        /\ output_file[height + 1] = <<>>
        /\ output_file[height + 2] = <<DecDigits[entry[1] + 1], ",", DecDigits[entry[2] + 1]>>
        /\ output_file[height + 3] = <<DecDigits[exit[1] + 1], ",", DecDigits[exit[2] + 1]>>
        /\ output_file[height + 4] = find_path(walls, width, height, entry, exit)


(* C23: get_neighbors(cell) returns exactly the in-bounds cells adjacent   *)
(* to cell, each paired with its direction from cell, in the fixed order   *)
(* N, E, S, W: 2 entries for a corner, 3 for an edge and 4 for an interior *)
(* cell of a grid of at least 3x3 cells.                                   *)

C23_Neighbors ==
    pc = "returned" =>
        LET x == start[1]
            y == start[2]
            rank(d) == CASE d = "N" -> 1 [] d = "E" -> 2 [] d = "S" -> 3 [] d = "W" -> 4
            adjacent == { <<start, <<x, y - 1>>, "N">>, <<start, <<x + 1, y>>, "E">>,
                          <<start, <<x, y + 1>>, "S">>, <<start, <<x - 1, y>>, "W">> }
            inside == { t \in adjacent :
                          /\ t[2][1] >= 0 /\ t[2][1] <= width - 1
                          /\ t[2][2] >= 0 /\ t[2][2] <= height - 1 }
            onX == x = 0 \/ x = width - 1
            onY == y = 0 \/ y = height - 1
        IN /\ { frontier[i] : i \in 1 .. Len(frontier) } = inside
           /\ \A i, j \in 1 .. Len(frontier) :
                i < j => rank(frontier[i][3]) < rank(frontier[j][3])
           /\ (width >= 3 /\ height >= 3) =>
                Len(frontier) = IF onX /\ onY THEN 2
                                ELSE IF onX \/ onY THEN 3 ELSE 4

C23_Witness ==
    /\ pc = "returned"
    /\ width = 3
    /\ height = 3
    /\ start = <<1, 1>>
    /\ frontier = << <<start, <<1, 0>>, "N">>, <<start, <<2, 1>>, "E">>,
                     <<start, <<1, 2>>, "S">>, <<start, <<0, 1>>, "W">> >>


(* C24: in the frontier algorithm, popping an edge whose neighbour cell is *)
(* already visited carves nothing, marks nothing and appends no edge: the  *)
(* only effect of that step is the removal of the popped edge.             *)

C24_VisitedPopOnlyRemoves ==
    [][(pc = "gen" /\ algo \in {"iprim", "aprim", "mprim"} /\ carved' = carved) =>
          /\ walls' = walls
          /\ visited' = visited
          /\ \E i \in 1 .. Len(frontier) :
               /\ visited[frontier[i][2]]
               /\ frontier' = RemoveAt(frontier, i)]_vars


\* the number of simple routes from cell c to cell target through passages
\* open on both sides that avoid the cells of seen
RECURSIVE NumRoutes(_, _, _, _, _, _)
NumRoutes(ws, w, h, c, target, seen) ==
    IF c = target THEN 1
    ELSE LET via(d) == IF /\ InBounds(Step(c, d), w, h)
                          /\ Step(c, d) \notin seen
                          /\ OpenBetween(ws, c, d)
                       THEN NumRoutes(ws, w, h, Step(c, d), target,
                                      seen \cup {Step(c, d)})
                       ELSE 0
         IN via("N") + via("E") + via("S") + via("W")

(* C25: when the entry-to-exit route of the perfect maze contains two      *)
(* cells that are grid-adjacent, not consecutive on the route and          *)
(* separated by a closed wall, loop injection removes one such wall, so    *)
(* that afterwards at least two distinct simple routes lead from entry to  *)
(* exit.                                                                   *)

C25_ShortcutOpened ==
    [][(pc = "generated" /\ pc' # pc /\ Rendering /\ ~perfect) =>
          LET coords == path_coords(entry, find_path(walls, width, height, entry, exit))
              sc == shortcuts(walls, coords)
          IN sc # {} =>
               /\ \E t \in sc : OpenBetween(walls', t[1], t[3])
               /\ NumRoutes(walls', width, height, entry, exit, {entry}) >= 2]_vars


(* C26: at every step of a generation run of the internal Prim or DFS      *)
(* generator, the carved passages form a tree over the visited enabled     *)
(* cells: the number of passages equals the number of visited enabled      *)
(* cells minus one, and every visited enabled cell is connected to the     *)
(* start cell through open passages.                                       *)

C27_StackSimplePath ==
    (algo \in {"idfs", "adfs"}) =>
        /\ \A i \in 1 .. Len(stack) :
              /\ visited[stack[i]]
              /\ enabled[stack[i]]
              /\ stack[i] \notin pattern
        /\ \A i, j \in 1 .. Len(stack) : i # j => stack[i] # stack[j]
        /\ \A i \in 1 .. Len(stack) - 1 :
              \E d \in DirSet :
                 /\ Step(stack[i], d) = stack[i + 1]
                 /\ ~has_wall(walls[stack[i]], d)
                 /\ ~has_wall(walls[stack[i + 1]], opposite(d))


\* the sides of cell c that face outside a w x h grid
OutwardSides(c, w, h) == { d \in DirSet : ~InBounds(Step(c, d), w, h) }

\* C28: outer boundary walls are never removed: after any sequence of
\* generation carves and loop-injection removals every border cell still has
\* the wall bit of each side facing outside the grid, and the route find_path
\* returned visits cells of the grid only.
C28_BoundaryKept ==
    /\ \A c \in Cells(width, height) :
          \A d \in OutwardSides(c, width, height) : has_wall(walls[c], d)
    /\ \A c \in Range(path_coords(entry, route)) : InBounds(c, width, height)

C28_Witness ==
    /\ pc = "done"
    /\ algo = "aprim"
    /\ width >= 2
    /\ height >= 2
    /\ Len(carved) = width * height - 1
    /\ removed # <<>>
    /\ Len(route) >= 2


\* C29: the walls a generator instance produces depend only on its own width,
\* height, seed, pattern and algorithm: the instance that generates after
\* another generator was constructed or ran ends with the walls of the
\* instance of the same arguments that generated undisturbed.
C29_Isolation ==
    (pc = "generated" /\ run_no = 2) => walls = first_walls


\* the first call left a spanning tree over the enabled cells
FullyGenerated(ws) ==
    /\ EnabledCells # {}
    /\ Cardinality(Passages(ws, width, height)) = Cardinality(EnabledCells) - 1
    /\ \A c \in EnabledCells :
          EnabledCells \subseteq ReachFrom({c}, OpenEdges(ws, width, height))

\* C30: a second generate() on a generator whose grid is already fully
\* generated leaves every cell's wall mask as the first call returned it, for
\* the Prim and for the DFS generator.
C30_SecondCallNoChange ==
    (run_no = 2 /\ FullyGenerated(first_walls)) => walls = first_walls


====
